---- MODULE Spec2Model ----
(***************************************************************************)
(* Model of the voice assistant's voice activity detector                  *)
(* (fresh-voice-assistant/utils/voiceActivityDetection.ts) and of the      *)
(* recording controller of the VoiceRecorder island that it drives.        *)
(*                                                                         *)
(* The specifications share one clock:                                     *)
(*   SpecVad  the detector alone; its two callbacks are counted.           *)
(*   SpecScn  the detector run on one timed input at the frame rate.       *)
(*   SpecVol  the detector with a failing start() and its volume meter.    *)
(*   SpecCfg  the detector with updateConfig() of every field.             *)
(*   SpecRec  the recording controller, the MediaRecorder objects it       *)
(*            creates and the detector callbacks that call into it.        *)
(*   SpecRecLive  the controller with a fair environment.                  *)
(* Times are milliseconds (Date.now()).  A null time or timer is NULL.     *)
(***************************************************************************)
EXTENDS Integers, Sequences, FiniteSets, TLC

NULL == -1

\* ------------------------------------------------------------------ bounds
\* Value of Date.now() in the initial state (any value >= the cooldown, as
\* the epoch clock is).
T0 == 1000
\* The clock advances in steps of TickMs and stops at MaxTime.
TickMs == 250
MaxTime == 2250
\* Calls of VoiceActivityDetector.start() in one behaviour.
MaxVadStarts == 2
\* Calls of VoiceActivityDetector.updateConfig() in one behaviour.
MaxConfigUpdates == 1
\* Length in ms of the run of the timed scenario.
ScnHorizon == 800
\* MediaRecorder objects created in one behaviour.
MaxRecorders == 3
\* dataavailable events of one MediaRecorder.
MaxChunks == 1
\* Changes of the sound level between consecutive frames in one behaviour.
MaxLevelChanges == 2

\* --------------------------------------------------------- program constants
\* private historySize = 10
historySize == 10
\* if (timeSinceLastEnd < 1000)
COOLDOWN_MS == 1000
\* MockAudioContext.sampleRate / MockAnalyserNode.frequencyBinCount (fftSize 2048)
sampleRate == 48000
frequencyBinCount == 1024
\* Volumes are kept as multiples of 1/VolScale so that the means are integers:
\* VolScale = lcm(frequencyBinCount, 10 * VoiceBandBins / 4).
VolScale == 5120
\* const MIN_RECORDING_DURATION = 500
MIN_RECORDING_DURATION == 500
\* const MIN_AUDIO_SIZE = 1024
MIN_AUDIO_SIZE == 1024
\* setTimeout(() => { processRecording(chunks) ... }, 100)
PROCESS_DELAY_MS == 100

VARIABLES
  now,   \* Date.now()
  vad,   \* the VoiceActivityDetector object, with what its callers observed
  env,   \* the inputs used so far
  rec,   \* the VoiceRecorder component: its signals, state, refs and closures
  mrs,   \* the MediaRecorder objects created so far, each with its chunks array
  sink   \* the requests sent to /api/voice

vars == <<now, vad, env, rec, mrs, sink>>

\* ------------------------------------------------------------- the detector

\* Frames the analyser hands out: every bin at one level (the test's mock).
Levels == {10, 100}
Frame(level) == [i \in 0..(frequencyBinCount - 1) |-> level]

\* for (i = 0; i < dataArray.length; i++) sum += dataArray[i]   (bins lo..hi)
RECURSIVE SumBins(_, _, _)
SumBins(f, lo, hi) ==
  IF lo > hi THEN 0
  ELSE IF lo = hi THEN f[lo]
  ELSE LET mid == (lo + hi) \div 2 IN SumBins(f, lo, mid) + SumBins(f, mid + 1, hi)

\* freq = i * binHz with binHz = (sampleRate / 2) / frequencyBinCount, compared
\* without division: freq >= h  <=>  i * sampleRate >= h * 2 * frequencyBinCount
FreqAtLeast(i, h) == i * sampleRate >= h * 2 * frequencyBinCount
FreqAtMost(i, h) == i * sampleRate <= h * 2 * frequencyBinCount

\* twice the weight of bin i (1.5 -> 3, 1.0 -> 2, outside the voice band -> 0)
Weight2(i) ==
  IF FreqAtLeast(i, 85) /\ FreqAtMost(i, 3000)
  THEN (IF FreqAtLeast(i, 100) /\ FreqAtMost(i, 1000) THEN 3 ELSE 2)
  ELSE 0

\* twice voiceSum over the bins lo..hi
RECURSIVE VoiceSum2(_, _, _)
VoiceSum2(f, lo, hi) ==
  IF lo > hi THEN 0
  ELSE IF lo = hi THEN f[lo] * Weight2(lo)
  ELSE LET mid == (lo + hi) \div 2 IN VoiceSum2(f, lo, mid) + VoiceSum2(f, mid + 1, hi)

\* 3000 / binHz
VoiceBandBins == (3000 * 2 * frequencyBinCount) \div sampleRate

Max(a, b) == IF a >= b THEN a ELSE b

\* effectiveVolume * VolScale
\*   averageVolume = sum / length;  voiceAverage = voiceSum / (3000 / binHz)
\*   effectiveVolume = Math.max(averageVolume, voiceAverage * 0.8)
EffectiveVolume(f) ==
  Max(SumBins(f, 0, frequencyBinCount - 1) * (VolScale \div frequencyBinCount),
      VoiceSum2(f, 0, frequencyBinCount - 1) * ((VolScale * 4) \div (10 * VoiceBandBins)))

EffTable == [l \in Levels |-> EffectiveVolume(Frame(l))]

\* a full history that evicts its two oldest samples
PushVolumeEvictsTwo(h, v) ==
  LET h2 == Append(h, v) IN IF Len(h2) > historySize THEN Tail(Tail(h2)) ELSE h2

\* a history that keeps the last frame only (no smoothing)
PushVolumeNoHistory(h, v) == <<v>>

\* volumeHistory.push(v); if (length > historySize) shift()
PushVolume(h, v) ==
  LET h2 == Append(h, v) IN IF Len(h2) > historySize THEN Tail(h2) ELSE h2

RECURSIVE SumSeq(_)
SumSeq(s) == IF s = <<>> THEN 0 ELSE Head(s) + SumSeq(Tail(s))

\* the comparison made non-strict: smoothedVolume >= voiceThreshold
IsVoiceDetectedAtThreshold(h, thr) == SumSeq(h) >= thr * Len(h) * VolScale

\* smoothedVolume > voiceThreshold, smoothedVolume = sum(history) / length
IsVoiceDetected(h, thr) == SumSeq(h) > thr * Len(h) * VolScale

\* Values a caller passes to updateConfig.
Thresholds == {10, 30}
SilenceDelays == {250, 500}
MinSpeechDurations == {250, 500}

\* The levels the next frame can have: the sound changes level at most
\* MaxLevelChanges times.
NextLevels ==
  {l \in Levels :
     env.lastLevel = NULL \/ l = env.lastLevel \/ env.levelChanges < MaxLevelChanges}

HeardLevel(e, level) ==
  [e EXCEPT !.lastLevel = level,
            !.levelChanges = IF e.lastLevel = NULL \/ e.lastLevel = level THEN @ ELSE @ + 1]

\* handleVoiceStart(): the cooldown test at time t
CooldownElapsed(d, t) == ~(t - d.lastVoiceEndTime < COOLDOWN_MS)

\* if (this.silenceTimeout) clearTimeout(this.silenceTimeout): the timers
\* that stay live (d.timers holds the due time of every timer that was set and
\* has neither run nor been cleared; silenceTimeout is the handle kept)
ClearTimeout(d) == d.timers \ {d.silenceTimeout}

\* handleVoiceStart()
HandleVoiceStart(d, t) ==
  IF CooldownElapsed(d, t)
  THEN [d EXCEPT !.isSpeaking = TRUE,
                 !.speechStartTime = t,
                 !.voiceStartCount = @ + 1,      \* this.voiceStartCallback()
                 !.timers = ClearTimeout(d),
                 !.silenceTimeout = NULL,
                 !.timerArmedAt = NULL]
  ELSE d

\* a handlePotentialVoiceEnd that sets a timer whether or not one is pending
HandlePotentialVoiceEndRearms(d, t) ==
  [d EXCEPT !.timers = @ \cup {t + d.config.silenceDelay},
            !.silenceTimeout = t + d.config.silenceDelay, !.timerArmedAt = t]

\* handlePotentialVoiceEnd(): arm the one-shot timer unless one is pending
HandlePotentialVoiceEnd(d, t) ==
  IF d.silenceTimeout = NULL
  THEN [d EXCEPT !.timers = @ \cup {t + d.config.silenceDelay},
                 !.silenceTimeout = t + d.config.silenceDelay, !.timerArmedAt = t]
  ELSE d

\* detectVoice() that leaves the silence timer alone while voice continues
DetectFrameKeepsTimer(d, level, t) ==
  LET h == PushVolume(d.volumeHistory, EffTable[level])
      d1 == [d EXCEPT !.volumeHistory = h]
      detected == IsVoiceDetected(h, d.config.voiceThreshold)
  IN IF detected /\ ~d.isSpeaking THEN HandleVoiceStart(d1, t)
     ELSE IF ~detected /\ d.isSpeaking THEN HandlePotentialVoiceEnd(d1, t)
     ELSE d1

\* detectVoice() past its isListening test, for a frame at the given level
DetectFrame(d, level, t) ==
  LET h == PushVolume(d.volumeHistory, EffTable[level])
      d1 == [d EXCEPT !.volumeHistory = h]
      detected == IsVoiceDetected(h, d.config.voiceThreshold)
  IN IF detected /\ ~d.isSpeaking THEN HandleVoiceStart(d1, t)
     ELSE IF ~detected /\ d.isSpeaking THEN HandlePotentialVoiceEnd(d1, t)
     ELSE IF detected /\ d.isSpeaking
     THEN [d1 EXCEPT !.timers = ClearTimeout(d1),
                     !.silenceTimeout = NULL, !.timerArmedAt = NULL]
     ELSE d1

\* start(stream): the source is acquired and the loop's first detectVoice()
\* runs and queues the next one
VadStart ==
  /\ env.vadStarts < MaxVadStarts
  /\ \E level \in NextLevels :
       /\ vad' = [DetectFrame([vad EXCEPT !.microphone = TRUE, !.isListening = TRUE],
                              level, now)
                    EXCEPT !.rafPending = @ + 1]
       /\ env' = [HeardLevel(env, level) EXCEPT !.vadStarts = @ + 1]
  /\ UNCHANGED <<now, rec, mrs, sink>>

\* a start() that sets isListening before it acquires the source
StartFailsListening(d) == [d EXCEPT !.isListening = TRUE]

\* start(stream) when createMediaStreamSource throws: nothing was assigned
\* before the throw, and the catch block logs and rethrows
StartFails(d) == d

\* start(stream): createMediaStreamSource throws and the error is rethrown to
\* the caller, who counts it
VadStartFails ==
  /\ env.vadStarts + env.startErrors < MaxVadStarts
  /\ vad' = StartFails(vad)
  /\ env' = [env EXCEPT !.startErrors = @ + 1]
  /\ UNCHANGED <<now, rec, mrs, sink>>

\* the requestAnimationFrame callback: detectVoice()
DetectVoice ==
  /\ vad.rafPending > 0
  /\ IF ~vad.isListening
     THEN /\ vad' = [vad EXCEPT !.rafPending = @ - 1]
          /\ UNCHANGED env
     ELSE \E level \in NextLevels :
            /\ vad' = DetectFrame(vad, level, now)
            /\ env' = HeardLevel(env, level)
  /\ UNCHANGED <<now, rec, mrs, sink>>

\* the duration test made strict
LongEnoughStrict(d, t) ==
  d.speechStartTime # NULL /\ t - d.speechStartTime > d.config.minSpeechDuration

\* the setTimeout callback: was the speech long enough to be valid
LongEnough(d, t) ==
  d.speechStartTime # NULL /\ t - d.speechStartTime >= d.config.minSpeechDuration

\* a timer callback that also sets speechStartTime to null
SilenceTimeoutClearsStart(d, t) ==
  IF LongEnough(d, t)
  THEN [d EXCEPT !.isSpeaking = FALSE, !.lastVoiceEndTime = t, !.voiceEndCount = @ + 1,
                 !.lastEndEmitTime = t, !.silenceTimeout = NULL, !.timerArmedAt = NULL,
                 !.speechStartTime = NULL]
  ELSE [d EXCEPT !.isSpeaking = FALSE, !.discardCount = @ + 1, !.silenceTimeout = NULL,
                 !.timerArmedAt = NULL, !.speechStartTime = NULL]

\* the setTimeout callback armed by handlePotentialVoiceEnd()
SilenceTimeout(d, t) ==
  IF LongEnough(d, t)
  THEN [d EXCEPT !.isSpeaking = FALSE,
                 !.lastVoiceEndTime = t,
                 !.voiceEndCount = @ + 1,        \* this.voiceEndCallback()
                 !.lastEndEmitTime = t,
                 !.silenceTimeout = NULL,
                 !.timerArmedAt = NULL]
  ELSE [d EXCEPT !.isSpeaking = FALSE,
                 !.discardCount = @ + 1,
                 !.silenceTimeout = NULL,
                 !.timerArmedAt = NULL]

\* a timer that is due runs its callback, once
SilenceTimerFires ==
  /\ \E h \in vad.timers :
       /\ now >= h
       /\ vad' = [SilenceTimeout(vad, now) EXCEPT !.timers = @ \ {h}]
  /\ UNCHANGED <<now, env, rec, mrs, sink>>

\* a stop() that calls the end callback whatever the state
StopEmitsEndAlways(d) == TRUE

\* stop(): if (this.isSpeaking) the end callback is called
StopEmitsEnd(d) == d.isSpeaking

\* a stop() that leaves the silence timer armed
StopKeepsTimer(d, t) ==
  LET d1 == [d EXCEPT !.isListening = FALSE, !.microphone = FALSE]
  IN IF StopEmitsEnd(d)
     THEN [d1 EXCEPT !.isSpeaking = FALSE, !.voiceEndCount = @ + 1, !.lastEndEmitTime = t]
     ELSE d1

\* stop() without the voiceEndCallback of a speaking detector
StopWithoutEnd(d, t) ==
  [d EXCEPT !.isListening = FALSE, !.timers = ClearTimeout(d),
            !.silenceTimeout = NULL, !.timerArmedAt = NULL,
            !.microphone = FALSE, !.isSpeaking = FALSE]

\* a stop() that calls the end callback without resetting isSpeaking
StopLeavesSpeaking(d, t) ==
  LET d1 == [d EXCEPT !.isListening = FALSE, !.timers = ClearTimeout(d),
                      !.silenceTimeout = NULL, !.timerArmedAt = NULL,
                      !.microphone = FALSE]
  IN IF StopEmitsEnd(d)
     THEN [d1 EXCEPT !.voiceEndCount = @ + 1, !.lastEndEmitTime = t]
     ELSE d1

\* a stop() whose VoiceEnded starts the cooldown like that of the timer
StopRestartsCooldown(d, t) ==
  LET d1 == [d EXCEPT !.isListening = FALSE, !.timers = ClearTimeout(d),
                      !.silenceTimeout = NULL, !.timerArmedAt = NULL,
                      !.microphone = FALSE]
  IN IF StopEmitsEnd(d)
     THEN [d1 EXCEPT !.isSpeaking = FALSE, !.voiceEndCount = @ + 1,
                     !.lastEndEmitTime = t, !.lastVoiceEndTime = t]
     ELSE d1

\* stop()
Stop(d, t) ==
  LET d1 == [d EXCEPT !.isListening = FALSE,
                      !.timers = ClearTimeout(d),
                      !.silenceTimeout = NULL,
                      !.timerArmedAt = NULL,
                      !.microphone = FALSE]
  IN IF StopEmitsEnd(d)
     THEN [d1 EXCEPT !.isSpeaking = FALSE,
                     !.voiceEndCount = @ + 1,    \* this.voiceEndCallback()
                     !.lastEndEmitTime = t]
     ELSE d1

VadStop ==
  /\ vad' = Stop(vad, now)
  /\ UNCHANGED <<now, env, rec, mrs, sink>>

\* updateConfig(newConfig): this.config = { ...this.config, ...newConfig }
Merge(c, partial) == [k \in DOMAIN c |-> IF k \in DOMAIN partial THEN partial[k] ELSE c[k]]

\* newConfig.<field> && this.analyser: the field is present and truthy
Truthy(partial, field) == field \in DOMAIN partial /\ partial[field] # 0

\* an updateConfig that starts the utterance over
UpdateRestartsUtterance(d, partial) ==
  [d EXCEPT !.config = Merge(d.config, partial),
            !.timers = {}, !.silenceTimeout = NULL, !.timerArmedAt = NULL,
            !.volumeHistory = <<>>]

\* updateConfig(newConfig), whole: the merge, then fftSize and
\* smoothingTimeConstant are handed to the analyser when they are truthy
Update(d, partial) ==
  LET a1 == IF Truthy(partial, "fftSize")
            THEN [d.analyser EXCEPT !.fftSize = partial.fftSize,
                                    !.frequencyBinCount = partial.fftSize \div 2]
            ELSE d.analyser
      a2 == IF Truthy(partial, "smoothingTimeConstant")
            THEN [a1 EXCEPT !.smoothingTimeConstant = partial.smoothingTimeConstant]
            ELSE a1
  IN [d EXCEPT !.config = Merge(d.config, partial),
               !.analyser = a2,
               !.dataArrayLength = IF Truthy(partial, "fftSize")
                                   THEN a1.frequencyBinCount ELSE @]

Partials ==
  {[voiceThreshold |-> t] : t \in Thresholds}
    \cup {[silenceDelay |-> d] : d \in SilenceDelays}
    \cup {[minSpeechDuration |-> m] : m \in MinSpeechDurations}

UpdateConfig ==
  /\ env.configUpdates < MaxConfigUpdates
  /\ \E partial \in Partials :
       /\ Merge(vad.config, partial) # vad.config
       /\ vad' = Update(vad, partial)
  /\ env' = [env EXCEPT !.configUpdates = @ + 1]
  /\ UNCHANGED <<now, rec, mrs, sink>>

\* the clock
Tick ==
  /\ now + TickMs <= MaxTime
  /\ now' = now + TickMs
  /\ UNCHANGED <<vad, env, rec, mrs, sink>>

\* new VoiceActivityDetector(audioContext, onVoiceStart, onVoiceEnd, customConfig)
InitDetector ==
  [isListening |-> FALSE, isSpeaking |-> FALSE, speechStartTime |-> NULL,
   lastVoiceEndTime |-> 0, silenceTimeout |-> NULL, timers |-> {},
   volumeHistory |-> <<>>,
   \* smoothingTimeConstant is kept in tenths (0.8 -> 8)
   config |-> [voiceThreshold |-> 30, silenceDelay |-> 250, minSpeechDuration |-> 500,
               smoothingTimeConstant |-> 8, fftSize |-> 2048],
   analyser |-> [fftSize |-> 2048, smoothingTimeConstant |-> 8,
                 frequencyBinCount |-> frequencyBinCount],
   dataArrayLength |-> frequencyBinCount,
   microphone |-> FALSE, rafPending |-> 0,
   \* observed by the callers
   voiceStartCount |-> 0, voiceEndCount |-> 0, discardCount |-> 0,
   lastEndEmitTime |-> NULL, timerArmedAt |-> NULL]

InitEnv == [vadStarts |-> 0, configUpdates |-> 0, lastLevel |-> NULL, levelChanges |-> 0]

\* the component after its first render
InitRec ==
  [isRecording |-> FALSE, isProcessing |-> FALSE, mediaRecorder |-> 0,
   recordingStartTime |-> NULL, isVadEnabled |-> FALSE, stream |-> FALSE,
   audioContext |-> FALSE, vad |-> FALSE,
   \* the render captured by the callbacks of the detector
   cb |-> [mediaRecorder |-> 0, stream |-> FALSE],
   \* startRecording calls waiting for getUserMedia
   pendingStarts |-> 0,
   \* those of them that were called by the voiceStartCallback
   pendingAuto |-> 0,
   \* the startVAD call waiting for getUserMedia, with the render it captured
   pendingVad |-> [active |-> FALSE, mediaRecorder |-> 0, stream |-> FALSE,
                   audioContext |-> FALSE],
   \* triggers whose request was refused so far
   rejected |-> {}]

InitVad ==
  /\ now = T0
  /\ vad = InitDetector
  /\ env = InitEnv
  /\ rec = InitRec
  /\ mrs = <<>>
  /\ sink = <<>>

NextVad ==
  \/ VadStart
  \/ DetectVoice
  \/ SilenceTimerFires
  \/ VadStop
  \/ UpdateConfig
  \/ Tick

SpecVad == InitVad /\ [][NextVad]_vars

\* ---------------------------------------------- the VoiceRecorder component
\* The signals isRecording and isProcessing and the ref recordingStartTime are
\* read live by every closure; the useState values mediaRecorder, stream,
\* audioContext and isVadEnabled are read from the render that created the
\* closure.  The click handlers are those of the current render; the two
\* callbacks handed to the detector keep the render in which startVAD was
\* called (rec.cb).  A MediaStream is modelled by whether the value is non-null;
\* its tracks are not followed.

\* bytes of one dataavailable event
ChunkSizes == {0, 512}

\* a controller without the guard
BusyNever(c) == FALSE

\* if (isRecording.value || isProcessing.value) return;
Busy(c) == c.isRecording \/ c.isProcessing

\* new MediaRecorder(...); const chunks: Blob[] = []; recorder.start()
NewRecorder ==
  [state |-> "recording", chunks |-> <<>>, events |-> 0,
   finalPending |-> FALSE, stopPending |-> FALSE, timer |-> NULL,
   outcome |-> "none",
   \* chunks.length when stop() was called
   chunksAtStop |-> NULL]

\* startRecording from the MediaRecorder construction on
CreateRecorder(c, m, t) ==
  [rec |-> [c EXCEPT !.mediaRecorder = Len(m) + 1, !.isRecording = TRUE,
                     !.recordingStartTime = t],
   mrs |-> Append(m, NewRecorder)]

\* startRecording up to the first await; hasStream is `stream` as the calling
\* closure sees it
StartRecording(c, m, t, hasStream) ==
  IF Busy(c) THEN [rec |-> c, mrs |-> m]
  ELSE LET c1 == [c EXCEPT !.audioContext = TRUE]
       IN  IF hasStream THEN CreateRecorder(c1, m, t)
           ELSE [rec |-> [c1 EXCEPT !.pendingStarts = @ + 1], mrs |-> m]

\* a recorder that becomes inactive without delivering data or firing stop
StopRecorderSilently(m, r) ==
  [m EXCEPT ![r] = [@ EXCEPT !.state = "inactive",
                             !.chunksAtStop = Len(m[r].chunks)]]

\* a stop that schedules the processing itself, without waiting for the stop
\* event of the recorder
StopRecorderSchedules(m, r) ==
  [m EXCEPT ![r] = [@ EXCEPT !.state = "inactive", !.finalPending = TRUE,
                             !.timer = 0,
                             !.chunksAtStop = Len(m[r].chunks)]]

\* a stop that empties the chunks array
StopRecorderClears(m, r) ==
  [m EXCEPT ![r] = [@ EXCEPT !.state = "inactive", !.finalPending = TRUE,
                             !.stopPending = TRUE, !.chunks = <<>>,
                             !.chunksAtStop = 0]]

\* MediaRecorder.stop(): the state becomes inactive at once, the data gathered
\* is delivered in a dataavailable event and then the stop event is fired
StopRecorder(m, r) ==
  [m EXCEPT ![r] = [@ EXCEPT !.state = "inactive", !.finalPending = TRUE,
                             !.stopPending = TRUE,
                             !.chunksAtStop = Len(m[r].chunks)]]

\* the minimum applied also to a recording of exactly MIN_RECORDING_DURATION
TooShortOrEqual(c, t, vadEnabled) ==
  LET recordingDuration ==
        IF c.recordingStartTime # NULL THEN t - c.recordingStartTime ELSE 0
  IN  recordingDuration <= MIN_RECORDING_DURATION /\ ~vadEnabled

\* recordingDuration < MIN_RECORDING_DURATION && !isVadEnabled
TooShort(c, t, vadEnabled) ==
  LET recordingDuration ==
        IF c.recordingStartTime # NULL THEN t - c.recordingStartTime ELSE 0
  IN  recordingDuration < MIN_RECORDING_DURATION /\ ~vadEnabled

\* a request that was refused, remembered by its trigger
Rejected(c, trigger) == [c EXCEPT !.rejected = @ \cup {trigger}]

\* stopRecording; mr and vadEnabled are `mediaRecorder` and `isVadEnabled` as
\* the calling closure sees them.  stop() on a recorder that is already
\* inactive does nothing or throws InvalidStateError, depending on the browser.
StopRecordingOutcomes(c, m, t, mr, vadEnabled) ==
  IF mr # 0 /\ c.isRecording
  THEN IF TooShort(c, t, vadEnabled) THEN {[rec |-> Rejected(c, "tooShort"), mrs |-> m]}
       ELSE LET stopped == [c EXCEPT !.isRecording = FALSE, !.recordingStartTime = NULL]
            IN  IF m[mr].state = "recording"
                THEN {[rec |-> stopped, mrs |-> StopRecorder(m, mr)]}
                ELSE {[rec |-> stopped, mrs |-> m], [rec |-> c, mrs |-> m]}
  ELSE {[rec |-> c, mrs |-> m]}

\* requests that may still create a MediaRecorder
RecorderBudget == Len(mrs) + rec.pendingStarts < MaxRecorders


\* onClick={handleRecordClick}; the button is rendered only while !isVadEnabled
HandleRecordClick ==
  /\ ~rec.isVadEnabled
  /\ IF rec.isProcessing
     THEN rec' = Rejected(rec, "manual") /\ UNCHANGED mrs
     ELSE IF rec.isRecording
          THEN \E o \in StopRecordingOutcomes(rec, mrs, now, rec.mediaRecorder,
                                              rec.isVadEnabled) :
                 rec' = o.rec /\ mrs' = o.mrs
          ELSE /\ RecorderBudget
               /\ LET o == StartRecording(rec, mrs, now, rec.stream)
                  IN  rec' = o.rec /\ mrs' = o.mrs
  /\ UNCHANGED <<now, vad, env, sink>>

\* getUserMedia of a startRecording call resolves
StartRecordingResumes ==
  /\ rec.pendingStarts > 0
  /\ \E auto \in BOOLEAN :
       /\ IF auto THEN rec.pendingAuto > 0 ELSE rec.pendingStarts > rec.pendingAuto
       /\ LET o == CreateRecorder([rec EXCEPT !.pendingStarts = @ - 1,
                                              !.pendingAuto = IF auto THEN @ - 1 ELSE @],
                                  mrs, now)
          IN  rec' = o.rec /\ mrs' = o.mrs
  /\ UNCHANGED <<now, vad, env, sink>>

\* getUserMedia of a startRecording call rejects: setError
StartRecordingFails ==
  /\ rec.pendingStarts > 0
  /\ \E auto \in BOOLEAN :
       /\ IF auto THEN rec.pendingAuto > 0 ELSE rec.pendingStarts > rec.pendingAuto
       /\ rec' = [rec EXCEPT !.pendingStarts = @ - 1,
                             !.pendingAuto = IF auto THEN @ - 1 ELSE @]
  /\ UNCHANGED <<now, vad, env, mrs, sink>>

\* the detector calls its voiceStartCallback
VoiceStartCallback ==
  /\ rec.vad
  /\ IF ~Busy(rec)
     THEN /\ RecorderBudget
          /\ LET o == StartRecording(rec, mrs, now, rec.cb.stream)
             IN  /\ rec' = [o.rec EXCEPT !.pendingAuto =
                                           @ + o.rec.pendingStarts - rec.pendingStarts]
                 /\ mrs' = o.mrs
     ELSE rec' = Rejected(rec, "auto") /\ UNCHANGED mrs
  /\ UNCHANGED <<now, vad, env, sink>>

\* the body of the voiceEndCallback
VoiceEnd(c, m, t) ==
  IF c.isRecording /\ ~c.isProcessing
  THEN StopRecordingOutcomes(c, m, t, c.cb.mediaRecorder, FALSE)
  ELSE {[rec |-> c, mrs |-> m]}

\* the detector calls its voiceEndCallback
VoiceEndCallback ==
  /\ rec.vad
  /\ \E o \in VoiceEnd(rec, mrs, now) : rec' = o.rec /\ mrs' = o.mrs
  /\ UNCHANGED <<now, vad, env, sink>>

NoPendingVad == [active |-> FALSE, mediaRecorder |-> 0, stream |-> FALSE,
                 audioContext |-> FALSE]

\* startVAD up to its getUserMedia
StartVADBegins(c) ==
  IF Busy(c) THEN c
  ELSE [c EXCEPT !.audioContext = TRUE,
                 !.pendingVad = [active |-> TRUE, mediaRecorder |-> c.mediaRecorder,
                                 stream |-> c.stream, audioContext |-> c.audioContext]]

\* stopVAD; wasSpeaking tells whether vad.stop() finds the detector speaking and
\* so calls the voiceEndCallback
StopVADOutcomes(c, m, t, wasSpeaking) ==
  LET ended == IF c.vad /\ wasSpeaking THEN VoiceEnd(c, m, t) ELSE {[rec |-> c, mrs |-> m]}
  IN  {[rec |-> [o.rec EXCEPT !.vad = FALSE, !.cb = [mediaRecorder |-> 0, stream |-> FALSE],
                              !.stream = FALSE, !.isVadEnabled = FALSE],
        mrs |-> o.mrs] : o \in ended}

\* onClick={toggleVAD}; the button is disabled while isProcessing
ToggleVAD ==
  /\ ~rec.isProcessing
  /\ IF rec.isVadEnabled
     THEN \E wasSpeaking \in BOOLEAN :
            \E o \in StopVADOutcomes(rec, mrs, now, wasSpeaking) :
              rec' = o.rec /\ mrs' = o.mrs
     ELSE /\ ~rec.pendingVad.active
          /\ rec' = StartVADBegins(rec)
          /\ UNCHANGED mrs
  /\ UNCHANGED <<now, vad, env, sink>>

\* getUserMedia of startVAD resolves: setStream, then the detector is built
\* with the audioContext of the captured render, which throws if that is null
StartVADResumes ==
  /\ rec.pendingVad.active
  /\ rec' = IF rec.pendingVad.audioContext
            THEN [rec EXCEPT !.stream = TRUE, !.vad = TRUE, !.isVadEnabled = TRUE,
                             !.cb = [mediaRecorder |-> rec.pendingVad.mediaRecorder,
                                     stream |-> rec.pendingVad.stream],
                             !.pendingVad = NoPendingVad]
            ELSE [rec EXCEPT !.stream = TRUE, !.pendingVad = NoPendingVad]
  /\ UNCHANGED <<now, vad, env, mrs, sink>>

\* getUserMedia of startVAD rejects: setError
StartVADFails ==
  /\ rec.pendingVad.active
  /\ rec' = [rec EXCEPT !.pendingVad = NoPendingVad]
  /\ UNCHANGED <<now, vad, env, mrs, sink>>

\* recorder.ondataavailable: a recorder delivers data while it records and once
\* more after stop()
DataAvailable ==
  /\ \E r \in DOMAIN mrs : \E size \in ChunkSizes :
       /\ \/ mrs[r].state = "recording" /\ mrs[r].events < MaxChunks
          \/ mrs[r].finalPending
       /\ mrs' = [mrs EXCEPT ![r] =
                    [@ EXCEPT !.chunks = IF size > 0 THEN Append(@, size) ELSE @,
                              !.events = IF mrs[r].finalPending THEN @ ELSE @ + 1,
                              !.finalPending = FALSE]]
  /\ UNCHANGED <<now, vad, env, rec, sink>>

\* recorder.onstop: setTimeout(..., 100)
RecorderStops ==
  /\ \E r \in DOMAIN mrs :
       /\ mrs[r].stopPending /\ ~mrs[r].finalPending
       /\ mrs' = [mrs EXCEPT ![r] = [@ EXCEPT !.stopPending = FALSE,
                                              !.timer = now + PROCESS_DELAY_MS]]
  /\ UNCHANGED <<now, vad, env, rec, sink>>

\* the gate with the boundary on the wrong side
TooSmallOrEqual(totalSize) == totalSize <= MIN_AUDIO_SIZE

\* totalSize < MIN_AUDIO_SIZE
TooSmall(totalSize) == totalSize < MIN_AUDIO_SIZE

\* processRecording run by a timer that is not one-shot
ProcessRecordingRepeating(c, m, s, r) ==
  LET chunks == m[r].chunks
      totalSize == SumSeq(chunks)
      idle == [c EXCEPT !.isProcessing = FALSE, !.isRecording = FALSE]
      done(outcome) == [m EXCEPT ![r] = [@ EXCEPT !.outcome = outcome]]
  IN  IF Len(chunks) = 0
      THEN [rec |-> idle, mrs |-> done("empty"), sink |-> s]
      ELSE IF TooSmall(totalSize)
           THEN [rec |-> idle, mrs |-> done("tooSmall"), sink |-> s]
           ELSE [rec |-> [c EXCEPT !.isProcessing = TRUE], mrs |-> done("processing"),
                 sink |-> Append(s, [session |-> r, bytes |-> totalSize])]

\* processRecording(chunks) up to the request
ProcessRecording(c, m, s, r) ==
  LET chunks == m[r].chunks
      totalSize == SumSeq(chunks)
      idle == [c EXCEPT !.isProcessing = FALSE, !.isRecording = FALSE]
      done(outcome) == [m EXCEPT ![r] = [@ EXCEPT !.timer = NULL, !.outcome = outcome]]
  IN  IF Len(chunks) = 0
      THEN [rec |-> idle, mrs |-> done("empty"), sink |-> s]
      ELSE IF TooSmall(totalSize)
           THEN [rec |-> idle, mrs |-> done("tooSmall"), sink |-> s]
           ELSE [rec |-> [c EXCEPT !.isProcessing = TRUE], mrs |-> done("processing"),
                 sink |-> Append(s, [session |-> r, bytes |-> totalSize])]

\* the timer set by onstop fires
ProcessTimerFires ==
  /\ \E r \in DOMAIN mrs :
       /\ mrs[r].timer # NULL
       /\ now >= mrs[r].timer
       /\ LET o == ProcessRecording(rec, mrs, sink, r)
          IN  rec' = o.rec /\ mrs' = o.mrs /\ sink' = o.sink
  /\ UNCHANGED <<now, vad, env>>

\* how the request ends: result.success, !result.success (setError), or the
\* fetch or the decoding throws (catch)
SinkOutcomes == {"ok", "failed", "threw"}

\* the flags reset on the success path only
FinallyOnSuccess(c, outcome) ==
  IF outcome = "ok" THEN [c EXCEPT !.isProcessing = FALSE, !.isRecording = FALSE] ELSE c

\* finally { isProcessing.value = false; isRecording.value = false; }
Finally(c, outcome) == [c EXCEPT !.isProcessing = FALSE, !.isRecording = FALSE]

\* the request of processRecording settles: try, catch and finally
ProcessingEnds ==
  /\ \E r \in DOMAIN mrs : \E outcome \in SinkOutcomes :
       /\ mrs[r].outcome = "processing"
       /\ mrs' = [mrs EXCEPT ![r] = [@ EXCEPT !.outcome = outcome]]
       /\ rec' = Finally(rec, outcome)
  /\ UNCHANGED <<now, vad, env, sink>>

InitRecorder ==
  /\ now = T0
  /\ vad = InitDetector
  /\ env = InitEnv
  /\ rec = InitRec
  /\ mrs = <<>>
  /\ sink = <<>>

NextRec ==
  \/ HandleRecordClick
  \/ StartRecordingResumes
  \/ StartRecordingFails
  \/ VoiceStartCallback
  \/ VoiceEndCallback
  \/ ToggleVAD
  \/ StartVADResumes
  \/ StartVADFails
  \/ DataAvailable
  \/ RecorderStops
  \/ ProcessTimerFires
  \/ ProcessingEnds
  \/ Tick

SpecRec == InitRecorder /\ [][NextRec]_vars

\* ------------------------------------- the component, with its environment
\* SpecRec with the assumptions under which every callback eventually runs:
\* a stopped recorder delivers its last data and fires its stop event, a timer
\* that is due runs, the request to /api/voice settles, and time goes on.

\* the clock past MaxTime: it advances only to let a pending timer run
TickToTimer ==
  /\ now + TickMs > MaxTime
  /\ \E r \in DOMAIN mrs :
       /\ mrs[r].timer # NULL /\ mrs[r].timer > now
       /\ now' = mrs[r].timer
  /\ UNCHANGED <<vad, env, rec, mrs, sink>>

\* the dataavailable event that follows stop()
LastDataAvailable ==
  DataAvailable /\ \E r \in DOMAIN mrs : mrs[r].finalPending /\ ~mrs'[r].finalPending

\* the component used with the record button (auto-detect is left off)
NextRecLive ==
  \/ HandleRecordClick
  \/ StartRecordingResumes
  \/ StartRecordingFails
  \/ DataAvailable
  \/ RecorderStops
  \/ ProcessTimerFires
  \/ ProcessingEnds
  \/ Tick
  \/ TickToTimer

SpecRecLive ==
  /\ InitRecorder
  /\ [][NextRecLive]_vars
  /\ WF_vars(LastDataAvailable)
  /\ WF_vars(RecorderStops)
  /\ WF_vars(ProcessTimerFires)
  /\ WF_vars(ProcessingEnds)
  /\ WF_vars(Tick \/ TickToTimer)

\* --------------------------------------------- the detector, timed scenario
\* One detector built with voiceThreshold 30, silenceDelay 100 and
\* minSpeechDuration 300 is started at T0 and runs its frame loop at the
\* display rate; the analyser gives level 100 during the first 400 ms and
\* level 10 afterwards.  Frames and the timer run when they are due.

\* ms between two requestAnimationFrame callbacks at 60 frames per second
FramePeriods == {16, 17}

\* the level of the analyser at time t
ScnLevel(t) == IF t - T0 < 400 THEN 100 ELSE 10

\* the frames of level 10 consumed so far, and the time of the eighth of them
ScnHeard(e, t) ==
  IF ScnLevel(t) = 10
  THEN [e EXCEPT !.lowFrames = @ + 1,
                 !.eighthLowAt = IF e.lowFrames = 7 THEN t ELSE @]
  ELSE e

InitScn ==
  /\ now = T0
  /\ vad = [InitDetector EXCEPT !.config = Merge(@, [voiceThreshold |-> 30,
                                                     silenceDelay |-> 100,
                                                     minSpeechDuration |-> 300])]
  /\ env = [nextFrameAt |-> NULL, lowFrames |-> 0, eighthLowAt |-> NULL]
  /\ rec = InitRec
  /\ mrs = <<>>
  /\ sink = <<>>

\* start(stream) and the first detectVoice()
ScnStart ==
  /\ env.nextFrameAt = NULL
  /\ \E period \in FramePeriods :
       /\ vad' = [DetectFrame([vad EXCEPT !.microphone = TRUE, !.isListening = TRUE],
                              ScnLevel(now), now)
                    EXCEPT !.rafPending = 1]
       /\ env' = [ScnHeard(env, now) EXCEPT !.nextFrameAt = now + period]
  /\ UNCHANGED <<now, rec, mrs, sink>>

\* the requestAnimationFrame callback: detectVoice(), which requests the next
ScnFrame ==
  /\ env.nextFrameAt # NULL
  /\ now = env.nextFrameAt
  /\ \E period \in FramePeriods :
       /\ vad' = DetectFrame(vad, ScnLevel(now), now)
       /\ env' = [ScnHeard(env, now) EXCEPT !.nextFrameAt = now + period]
  /\ UNCHANGED <<now, rec, mrs, sink>>

\* the setTimeout callback of handlePotentialVoiceEnd()
ScnTimer ==
  /\ now \in vad.timers
  /\ vad' = [SilenceTimeout(vad, now) EXCEPT !.timers = @ \ {now}]
  /\ UNCHANGED <<now, env, rec, mrs, sink>>

\* the time of the next callback that is due
ScnNextDue ==
  IF vad.silenceTimeout # NULL /\ vad.silenceTimeout < env.nextFrameAt
  THEN vad.silenceTimeout ELSE env.nextFrameAt

\* time passes until the next callback is due
ScnAdvance ==
  /\ env.nextFrameAt # NULL
  /\ now < ScnNextDue
  /\ ScnNextDue <= T0 + ScnHorizon
  /\ now' = ScnNextDue
  /\ UNCHANGED <<vad, env, rec, mrs, sink>>

NextScn == ScnStart \/ ScnFrame \/ ScnTimer \/ ScnAdvance

SpecScn == InitScn /\ [][NextScn]_vars

\* ------------------------------------------- the detector, with its meter
\* The detector of SpecVad, whose start() can fail, together with a caller of
\* getCurrentVolume() (the component polls it from a setInterval).  env.read holds what the last call
\* returned, and the level of the analyser and the state of the detector at
\* the time of the call.

\* freqAverage = freqSum / dataArray.length of the analyser's current frame
FreqAverage(f) == SumBins(f, 0, frequencyBinCount - 1) * (VolScale \div frequencyBinCount)

FreqAverageTable == [l \in Levels |-> FreqAverage(Frame(l))]

\* a meter that reads the analyser whether or not the detector is listening
GetCurrentVolumeUnguarded(d, level) == FreqAverageTable[level]

\* getCurrentVolume(), the analyser holding a frame of the given level
GetCurrentVolume(d, level) == IF ~d.isListening THEN 0 ELSE FreqAverageTable[level]

NoRead == [value |-> NULL, listening |-> FALSE, level |-> NULL, history |-> <<>>]

InitVol ==
  /\ now = T0
  /\ vad = InitDetector
  /\ env = [vadStarts |-> 0, configUpdates |-> 0, lastLevel |-> NULL, levelChanges |-> 0,
            startErrors |-> 0, read |-> NoRead]
  /\ rec = InitRec
  /\ mrs = <<>>
  /\ sink = <<>>

\* the setInterval callback: vadInstance.getCurrentVolume()
ReadVolume ==
  /\ \E level \in Levels :
       env' = [env EXCEPT !.read = [value |-> GetCurrentVolume(vad, level),
                                    listening |-> vad.isListening,
                                    level |-> level,
                                    history |-> vad.volumeHistory]]
  /\ UNCHANGED <<now, vad, rec, mrs, sink>>

NextVol ==
  \/ VadStart
  \/ VadStartFails
  \/ DetectVoice
  \/ VadStop
  \/ ReadVolume

SpecVol == InitVol /\ [][NextVol]_vars

\* -------------------------------------- the detector, every field of config
\* The detector with a caller of updateConfig() that passes any field of the
\* configuration; env.lastPartial is the object passed by the last call.

\* objects passed to updateConfig (the second is the one of the unit test)
AllPartials ==
  Partials
    \cup {[voiceThreshold |-> 10, silenceDelay |-> 500]}
    \cup {[smoothingTimeConstant |-> k] : k \in {0, 5}}
    \cup {[fftSize |-> 1024]}

InitCfg ==
  /\ now = T0
  /\ vad = InitDetector
  /\ env = [vadStarts |-> 0, configUpdates |-> 0, lastLevel |-> NULL, levelChanges |-> 0,
            lastPartial |-> [voiceThreshold |-> 30]]
  /\ rec = InitRec
  /\ mrs = <<>>
  /\ sink = <<>>

\* updateConfig(newConfig) with any field
UpdateAnyConfig ==
  /\ env.configUpdates < MaxConfigUpdates
  /\ \E partial \in AllPartials :
       /\ vad' = Update(vad, partial)
       /\ env' = [env EXCEPT !.configUpdates = @ + 1, !.lastPartial = partial]
  /\ UNCHANGED <<now, rec, mrs, sink>>

NextCfg ==
  \/ VadStart
  \/ DetectVoice
  \/ VadStop
  \/ UpdateAnyConfig

SpecCfg == InitCfg /\ [][NextCfg]_vars

\* --------------------------------------------- the detector, frame by frame
\* The volume computation of detectVoice() applied to frames that are not
\* flat: the analyser hands out a frame with one level outside the voice band
\* (below 85 Hz and above 3000 Hz), one in 100..1000 Hz and one in the rest of
\* the band; env holds the frame and the effective volume computed from it.

\* byte values of a bin
ByteLevels == {0, 10, 50, 100, 255}

\* the bins of the voice band and of its weighted part
InBand(i) == FreqAtLeast(i, 85) /\ FreqAtMost(i, 3000)
InFundamentals(i) == FreqAtLeast(i, 100) /\ FreqAtMost(i, 1000)

Shapes == [out : ByteLevels, fund : ByteLevels, rest : ByteLevels]

\* analyser.getByteFrequencyData(dataArray) for a frame of the given shape
ShapedFrame(sh) ==
  [i \in 0..(frequencyBinCount - 1) |->
     IF InFundamentals(i) THEN sh.fund ELSE IF InBand(i) THEN sh.rest ELSE sh.out]

ShapedEff == [sh \in Shapes |-> EffectiveVolume(ShapedFrame(sh))]

InitEff ==
  /\ now = T0
  /\ vad = InitDetector
  /\ env = [shape |-> [out |-> 0, fund |-> 0, rest |-> 0], effectiveVolume |-> 0,
            frames |-> 0]
  /\ rec = InitRec
  /\ mrs = <<>>
  /\ sink = <<>>

\* detectVoice() from getByteFrequencyData to effectiveVolume
MeasureFrame ==
  /\ \E sh \in Shapes :
       env' = [shape |-> sh, effectiveVolume |-> ShapedEff[sh], frames |-> 1]
  /\ UNCHANGED <<now, vad, rec, mrs, sink>>

NextEff == MeasureFrame

SpecEff == InitEff /\ [][NextEff]_vars

\* ------------------------------------------------ the chunk buffer by itself
\* The array `chunks` of one recorder, its ondataavailable handler and what
\* processRecording makes of it.  A chunk carries the position at which the
\* recorder produced it (`sequence`); the code has no such field, the handler
\* sees a Blob only.  The handler is called with the chunks in any order.
\* env holds the buffer: chunks, the calls of the handler so far (arrivals),
\* and the result of processRecording.

\* sequence numbers 1..MaxSeq
MaxSeq == 3

BufChunkSizes == {0, 400, 700}

\* a buffer that files each chunk by its sequence number
RECURSIVE PushInSequence(_, _)
PushInSequence(chunks, data) ==
  IF data.size = 0 THEN chunks
  ELSE IF chunks = <<>> THEN <<data>>
  ELSE IF chunks[Len(chunks)].sequence <= data.sequence THEN Append(chunks, data)
  ELSE Append(PushInSequence(SubSeq(chunks, 1, Len(chunks) - 1), data),
              chunks[Len(chunks)])

\* if (event.data && event.data.size > 0) chunks.push(event.data)
Push(chunks, data) == IF data.size > 0 THEN Append(chunks, data) ELSE chunks

\* chunks.reduce((sum, chunk) => sum + chunk.size, 0)
RECURSIVE ReduceSize(_, _)
ReduceSize(chunks, sum) ==
  IF chunks = <<>> THEN sum ELSE ReduceSize(Tail(chunks), sum + Head(chunks).size)

\* new Blob(chunks): the parts in array order, its size the bytes of the parts
RECURSIVE BlobSize(_)
BlobSize(parts) ==
  IF parts = <<>> THEN 0
  ELSE BlobSize(SubSeq(parts, 1, Len(parts) - 1)) + parts[Len(parts)].size

NewBlob(chunks) == [parts |-> chunks, size |-> BlobSize(chunks)]

InitBuf ==
  /\ now = T0
  /\ vad = InitDetector
  /\ env = [chunks |-> <<>>, arrivals |-> <<>>, outcome |-> "none",
            totalSize |-> 0, audioBlob |-> NewBlob(<<>>)]
  /\ rec = InitRec
  /\ mrs = <<>>
  /\ sink = <<>>

\* recorder.ondataavailable
OnDataAvailable ==
  /\ env.outcome = "none"
  /\ \E n \in 1..MaxSeq : \E size \in BufChunkSizes :
       /\ \A i \in DOMAIN env.arrivals : env.arrivals[i].sequence # n
       /\ LET data == [sequence |-> n, size |-> size] IN
            env' = [env EXCEPT !.chunks = Push(@, data),
                               !.arrivals = Append(@, data)]
  /\ UNCHANGED <<now, vad, rec, mrs, sink>>

\* processRecording(chunks) up to new Blob(chunks)
ProcessChunks ==
  /\ env.outcome = "none"
  /\ LET totalSize == ReduceSize(env.chunks, 0) IN
       env' = IF env.chunks = <<>>
              THEN [env EXCEPT !.outcome = "empty"]
              ELSE IF TooSmall(totalSize)
              THEN [env EXCEPT !.outcome = "tooSmall", !.totalSize = totalSize]
              ELSE [env EXCEPT !.outcome = "submitted", !.totalSize = totalSize,
                               !.audioBlob = NewBlob(env.chunks)]
  /\ UNCHANGED <<now, vad, rec, mrs, sink>>

NextBuf == OnDataAvailable \/ ProcessChunks

SpecBuf == InitBuf /\ [][NextBuf]_vars

\* ------------------------------------------------------ claims, detector

\* VoiceEnded was emitted in this step by the silence timer (not by stop()).
TimerEmitsEnd == vad'.voiceEndCount > vad.voiceEndCount /\ vad'.isListening

\* C7 (as claimed): an utterance whose smoothed volume was above the threshold
\* for less than minSpeechDuration before it dropped for good produces no
\* VoiceEnded: the timer emits VoiceEnded only if the drop that armed it came at
\* least minSpeechDuration after the speech started.
C7_BlipNeverEnds ==
  [][TimerEmitsEnd =>
       vad.timerArmedAt - vad.speechStartTime >= vad.config.minSpeechDuration]_vars

\* C8 (as claimed): no VoiceStarted is emitted less than 1000 ms after any
\* VoiceEnded, whichever way that VoiceEnded was emitted.
C8_CooldownAfterAnyEnd ==
  [][vad'.voiceStartCount > vad.voiceStartCount =>
       (vad.lastEndEmitTime = NULL \/ now - vad.lastEndEmitTime >= COOLDOWN_MS)]_vars

\* C9: VoiceStarted is emitted, and the detector leaves Silent, only on a frame
\* whose smoothed volume is strictly above voiceThreshold; so a frame sequence
\* whose smoothed volume never exceeds the threshold never starts.
SmoothedAbove(d) ==
  SumSeq(d.volumeHistory) > d.config.voiceThreshold * Len(d.volumeHistory) * VolScale

C9_NoPrematureStart ==
  [][(vad'.voiceStartCount > vad.voiceStartCount \/ (~vad.isSpeaking /\ vad'.isSpeaking))
       => SmoothedAbove(vad')]_vars

\* C9 witness: frames were consumed whose smoothed volume equals the threshold,
\* and nothing started.
C9_Witness ==
  /\ vad.isListening
  /\ Len(vad.volumeHistory) = historySize
  /\ SumSeq(vad.volumeHistory) = vad.config.voiceThreshold * historySize * VolScale
  /\ vad.voiceStartCount = 0
  /\ ~vad.isSpeaking

\* C10 (as claimed): whenever the detector is Silent, as many VoiceEnded as
\* VoiceStarted have been emitted.
C10_EveryStartEnded == ~vad.isSpeaking => vad.voiceEndCount = vad.voiceStartCount

\* C10 (amended): every VoiceStarted is matched by a VoiceEnded or by a
\* discarded too-short utterance, except the one of an utterance in progress.
C10_EveryStartEndedOrDiscarded ==
  vad.voiceStartCount
    = vad.voiceEndCount + vad.discardCount + (IF vad.isSpeaking THEN 1 ELSE 0)

\* C10 witness: stopped and Silent after one discarded utterance and one that
\* stop() ended.
C10_Witness ==
  /\ ~vad.isListening
  /\ ~vad.isSpeaking
  /\ vad.discardCount = 1
  /\ vad.voiceEndCount = 1
  /\ vad.lastVoiceEndTime = 0

\* C11: a stop() of a running detector emits one VoiceEnded if it was speaking
\* and none otherwise, emits no VoiceStarted, and leaves it Silent with no
\* timer; while the detector is stopped no frame is consumed and no event is
\* emitted, and no timer is pending, so none fires before the next start().
C11_StopEndsAndSilences ==
  /\ [][(vad.isListening /\ ~vad'.isListening) =>
          /\ vad'.voiceEndCount = vad.voiceEndCount + (IF vad.isSpeaking THEN 1 ELSE 0)
          /\ vad'.voiceStartCount = vad.voiceStartCount
          /\ ~vad'.isSpeaking
          /\ vad'.silenceTimeout = NULL]_vars
  /\ [][(~vad.isListening /\ ~vad'.isListening) =>
          /\ vad'.voiceEndCount = vad.voiceEndCount
          /\ vad'.voiceStartCount = vad.voiceStartCount
          /\ vad'.volumeHistory = vad.volumeHistory
          /\ ~vad'.isSpeaking]_vars
  /\ [](~vad.isListening => (vad.silenceTimeout = NULL /\ ~vad.isSpeaking))

\* C11 witness: the detector was stopped while speaking, the silence delay has
\* passed since, a frame callback is still queued, and the VoiceEnded of
\* stop() is the only one.
C11_Witness ==
  /\ ~vad.isListening
  /\ vad.voiceStartCount = 1
  /\ vad.voiceEndCount = 1
  /\ vad.lastVoiceEndTime = 0
  /\ vad.rafPending > 0
  /\ now - vad.lastEndEmitTime >= vad.config.silenceDelay

\* C12: at most as many VoiceEnded as VoiceStarted were emitted; a VoiceEnded
\* is emitted one at a time, by a speaking detector that it leaves Silent, and
\* only a VoiceStarted makes the detector speak again.
C12_EndAfterStart ==
  /\ [](vad.voiceEndCount <= vad.voiceStartCount)
  /\ [][vad'.voiceEndCount > vad.voiceEndCount =>
          /\ vad'.voiceEndCount = vad.voiceEndCount + 1
          /\ vad.isSpeaking
          /\ ~vad'.isSpeaking]_vars
  /\ [][(~vad.isSpeaking /\ vad'.isSpeaking) =>
          vad'.voiceStartCount = vad.voiceStartCount + 1]_vars

\* C12 witness: two utterances started and ended, one ended by stop() and one
\* by the silence timer.
C12_Witness ==
  /\ vad.voiceStartCount = 2
  /\ vad.voiceEndCount = 2
  /\ vad.lastVoiceEndTime > 0

\* C17: a frame consumed while Speaking with the silence timer pending, whose
\* smoothed volume is above the threshold, cancels the timer and changes
\* neither isSpeaking, nor speechStartTime, nor the events emitted.
C17_Hysteresis ==
  [][((DetectVoice \/ VadStart)
        /\ vad.isSpeaking /\ vad.silenceTimeout # NULL
        /\ vad'.isListening /\ SmoothedAbove(vad')) =>
       /\ vad'.silenceTimeout = NULL
       /\ vad'.isSpeaking
       /\ vad'.speechStartTime = vad.speechStartTime
       /\ vad'.voiceStartCount = vad.voiceStartCount
       /\ vad'.voiceEndCount = vad.voiceEndCount
       /\ vad'.discardCount = vad.discardCount]_vars

\* the first frame of the history was above the threshold and a longer prefix
\* of it has a mean at or below the threshold
DippedBelow(d) ==
  /\ Len(d.volumeHistory) > 2
  /\ d.volumeHistory[1] > d.config.voiceThreshold * VolScale
  /\ \E k \in 2..(Len(d.volumeHistory) - 1) :
       SumSeq(SubSeq(d.volumeHistory, 1, k)) <= d.config.voiceThreshold * k * VolScale

\* C17 witness: the one utterance is still going on with no timer pending,
\* after frames whose smoothed volume had dropped to the threshold or below
\* and rose again; nothing was emitted or discarded for the dip.
C17_Witness ==
  /\ vad.isListening /\ vad.isSpeaking
  /\ vad.silenceTimeout = NULL
  /\ vad.voiceStartCount = 1 /\ vad.voiceEndCount = 0 /\ vad.discardCount = 0
  /\ env.vadStarts = 1 /\ env.configUpdates = 0
  /\ Len(vad.volumeHistory) < historySize
  /\ DippedBelow(vad)
  /\ SmoothedAbove(vad)

\* the silence timer fired in this step
TimerFired ==
  /\ vad.silenceTimeout # NULL /\ vad'.silenceTimeout = NULL
  /\ vad.isSpeaking /\ ~vad'.isSpeaking
  /\ vad'.isListening

\* C18: when the silence timer fires, at silenceDelay or more after it was
\* armed, and minSpeechDuration or more has passed since speechStartTime, the
\* detector becomes Silent, lastVoiceEndTime is the firing time and one
\* VoiceEnded and nothing else is emitted.
C18_TimerEndsSpeech ==
  [][TimerFired =>
       /\ now >= vad.silenceTimeout
       /\ (now - vad.speechStartTime >= vad.config.minSpeechDuration =>
             /\ vad'.lastVoiceEndTime = now
             /\ vad'.voiceEndCount = vad.voiceEndCount + 1
             /\ vad'.voiceStartCount = vad.voiceStartCount
             /\ vad'.discardCount = vad.discardCount)]_vars

\* C18 witness: an utterance was ended by the timer exactly minSpeechDuration
\* after it started.
C18_Witness ==
  /\ vad.isListening /\ ~vad.isSpeaking
  /\ vad.voiceEndCount = 1
  /\ vad.lastVoiceEndTime = vad.lastEndEmitTime
  /\ vad.lastVoiceEndTime - vad.speechStartTime = vad.config.minSpeechDuration

\* C19 (as claimed): in the timed scenario one VoiceStarted is emitted, at the
\* start, and one VoiceEnded, at about 500 ms (within 50 ms of it, three
\* frames).
C19_EndAtAbout500 ==
  /\ vad.voiceStartCount <= 1
  /\ (vad.isListening => (vad.voiceStartCount = 1 /\ vad.speechStartTime = T0))
  /\ vad.voiceEndCount <= 1
  /\ (vad.voiceEndCount = 1 =>
        (vad.lastEndEmitTime - T0 >= 450 /\ vad.lastEndEmitTime - T0 <= 550))
  /\ (now - T0 > 550 => vad.voiceEndCount = 1)

\* C19 (amended): one VoiceStarted is emitted, at the start; the timer is armed
\* by the eighth frame of level 10, the first whose 10-frame mean is 30 or
\* less, and one VoiceEnded is emitted 100 ms after that frame, between 612
\* and 635 ms at 60 frames per second; nothing is discarded.
C19_EndAfterSmoothingLag ==
  /\ vad.voiceStartCount <= 1
  /\ (vad.isListening => (vad.voiceStartCount = 1 /\ vad.speechStartTime = T0))
  /\ vad.voiceEndCount <= 1
  /\ vad.discardCount = 0
  /\ (vad.silenceTimeout # NULL =>
        (env.lowFrames >= 8 /\ vad.timerArmedAt = env.eighthLowAt))
  /\ (vad.voiceEndCount = 1 =>
        /\ vad.lastEndEmitTime = env.eighthLowAt + 100
        /\ vad.lastEndEmitTime - T0 >= 612 /\ vad.lastEndEmitTime - T0 <= 635)
  /\ (now - T0 > 635 => vad.voiceEndCount = 1)

\* C19 witness: the run is over and the one VoiceEnded came 612 ms after the
\* start.
C19_Witness ==
  /\ now - T0 > 635
  /\ vad.voiceStartCount = 1 /\ vad.voiceEndCount = 1
  /\ vad.lastEndEmitTime - T0 = 612

\* C20 (as claimed): getCurrentVolume() returns 0 when the detector is not
\* listening, and while it listens the smoothed volume of the last detection
\* cycle, the mean of volumeHistory.
C20_ReturnsSmoothedVolume ==
  env.read.value # NULL =>
    IF ~env.read.listening THEN env.read.value = 0
    ELSE env.read.value * Len(env.read.history) = SumSeq(env.read.history)

\* C20 (amended): getCurrentVolume() returns 0 when the detector is not
\* listening (before the first start and after stop), and while it listens the
\* plain average of the frequency bins the analyser holds at the time of the
\* call, whatever the history of the detector is.
C20_ReturnsFrequencyAverage ==
  /\ [][ReadVolume =>
          /\ (~vad.isListening => env'.read.value = 0)
          /\ (vad.isListening => env'.read.value = env'.read.level * VolScale)
          /\ vad' = vad]_vars
  /\ [](env.read.value # NULL /\ ~env.read.listening => env.read.value = 0)

\* C20, not listening: a call made after stop() that returned 0 although the
\* history of the detector is not empty and the analyser is at level 100.
C20_WitnessStopped ==
  /\ env.read.value = 0
  /\ ~vad.isListening
  /\ ~env.read.listening
  /\ env.vadStarts > 0
  /\ SumSeq(env.read.history) > 0
  /\ env.read.level = 100

\* C20 witness: a call made while listening returned a value that is not
\* the mean of the history.
C20_Witness ==
  /\ env.read.listening
  /\ env.read.value = env.read.level * VolScale
  /\ Len(env.read.history) >= 2
  /\ env.read.value * Len(env.read.history) # SumSeq(env.read.history)

\* C21: updateConfig(partial) on a running detector sets exactly the fields of
\* the partial, leaves the others, does not stop the detector, and the values
\* the next detection cycle works with (the configuration read by detectVoice
\* and the settings of the analyser it reads its frame from) are the new ones.
C21_UpdateTakesEffect ==
  [][(UpdateAnyConfig /\ vad.isListening) =>
       /\ \A k \in DOMAIN vad.config :
            vad'.config[k] = IF k \in DOMAIN env'.lastPartial
                             THEN env'.lastPartial[k] ELSE vad.config[k]
       /\ vad'.isListening
       /\ vad'.analyser.fftSize = vad'.config.fftSize
       /\ vad'.analyser.smoothingTimeConstant = vad'.config.smoothingTimeConstant
       /\ vad'.dataArrayLength = vad'.analyser.frequencyBinCount]_vars

\* C22: updateConfig called while the detector is speaking changes the
\* configuration only: isSpeaking, speechStartTime, lastVoiceEndTime, the
\* volume history and the pending silence timer are as before and no callback
\* is called.
C22_UpdateKeepsUtterance ==
  [][(UpdateConfig /\ vad.isSpeaking) =>
       /\ vad'.isSpeaking /\ vad'.isListening = vad.isListening
       /\ vad'.speechStartTime = vad.speechStartTime
       /\ vad'.lastVoiceEndTime = vad.lastVoiceEndTime
       /\ vad'.volumeHistory = vad.volumeHistory
       /\ vad'.silenceTimeout = vad.silenceTimeout
       /\ vad'.voiceStartCount = vad.voiceStartCount
       /\ vad'.voiceEndCount = vad.voiceEndCount
       /\ vad'.discardCount = vad.discardCount
       /\ vad'.rafPending = vad.rafPending]_vars

\* C22 witness: the silence delay was changed while the detector was speaking
\* with its timer pending, and the timer is still due at the time it was armed
\* for.
C22_Witness ==
  /\ vad.isSpeaking /\ vad.isListening
  /\ env.configUpdates = 1
  /\ vad.silenceTimeout # NULL
  /\ vad.silenceTimeout # vad.timerArmedAt + vad.config.silenceDelay
  /\ Len(vad.volumeHistory) >= 2

\* C23: a start() whose source cannot be acquired throws to the caller and
\* changes nothing in the detector; a detector on which no start() has
\* succeeded is not listening, has no frame callback queued, has consumed no
\* frame, has called no callback, and its getCurrentVolume() returns 0.
C23_FailedStartLeavesDetectorIdle ==
  /\ [][VadStartFails => (vad' = vad /\ env'.startErrors = env.startErrors + 1)]_vars
  /\ [](env.vadStarts = 0 =>
          /\ ~vad.isListening /\ ~vad.microphone /\ ~vad.isSpeaking
          /\ vad.rafPending = 0 /\ vad.volumeHistory = <<>>
          /\ vad.voiceStartCount = 0 /\ vad.voiceEndCount = 0
          /\ (env.read.value # NULL => env.read.value = 0))

\* C23 witness: both starts failed, and a getCurrentVolume() made afterwards
\* with the analyser at level 100 returned 0.
C23_Witness ==
  /\ env.startErrors = MaxVadStarts
  /\ env.vadStarts = 0
  /\ env.read.value = 0 /\ env.read.level = 100

\* the utterances resolved so far: ended (by the timer or by stop()) or discarded
Resolved == vad.voiceEndCount + vad.discardCount

\* C24 (as claimed): speechStartTime changes only when the detector goes from
\* silent to speaking, and whenever the detector is silent after an utterance
\* has resolved, speechStartTime is absent.
C24_StartTimeCleared ==
  /\ [][(vad'.speechStartTime # vad.speechStartTime /\ vad'.speechStartTime # NULL) =>
          (~vad.isSpeaking /\ vad'.isSpeaking)]_vars
  /\ []((~vad.isSpeaking /\ Resolved > 0) => vad.speechStartTime = NULL)

\* C24 (amended): speechStartTime changes only when the detector goes from
\* silent to speaking and calls voiceStartCallback, where it becomes the
\* current time; it is never cleared: it is absent exactly as long as no
\* VoiceStarted has been emitted, and after an utterance has resolved it still
\* holds the start of that utterance.
C24_StartTimeKept ==
  /\ [][vad'.speechStartTime # vad.speechStartTime =>
          /\ ~vad.isSpeaking /\ vad'.isSpeaking
          /\ vad'.speechStartTime = now
          /\ vad'.voiceStartCount = vad.voiceStartCount + 1]_vars
  /\ [](vad.speechStartTime = NULL <=> vad.voiceStartCount = 0)
  /\ []((~vad.isSpeaking /\ Resolved > 0) => vad.speechStartTime # NULL)

\* C24 witness: the detector is silent, one utterance was ended by the timer
\* and one was discarded, and speechStartTime is the start of the later one.
C24_Witness ==
  /\ ~vad.isSpeaking
  /\ vad.voiceEndCount >= 1 /\ vad.discardCount >= 1
  /\ vad.voiceStartCount = 2
  /\ vad.speechStartTime > T0

\* C30: a silence timer is set only by a detection cycle that finds the
\* detector speaking, the smoothed volume at or below the threshold and no
\* timer pending, and it is due silenceDelay later; at most one timer is
\* live at any time, it is the one whose handle the detector holds, and while
\* it is live the detector is listening and speaking.
C30_OneSilenceTimer ==
  /\ [][~(vad'.timers \subseteq vad.timers) =>
          /\ DetectVoice \/ VadStart
          /\ vad.isSpeaking /\ vad'.isSpeaking
          /\ vad.timers = {} /\ vad.silenceTimeout = NULL
          /\ ~SmoothedAbove(vad')
          /\ vad'.timers = {now + vad.config.silenceDelay}]_vars
  /\ [](Cardinality(vad.timers) <= 1)
  /\ [](vad.timers = IF vad.silenceTimeout = NULL THEN {} ELSE {vad.silenceTimeout})
  /\ [](vad.timers # {} => (vad.isListening /\ vad.isSpeaking))

\* C30 witness: a timer set two ticks ago is still the only one, quiet frames
\* having been heard at every tick since.
C30_Witness ==
  /\ vad.timers = {vad.silenceTimeout}
  /\ vad.isSpeaking /\ vad.isListening
  /\ vad.timerArmedAt # NULL /\ now >= vad.timerArmedAt + 2 * TickMs
  /\ Len(vad.volumeHistory) >= 4

\* a detection cycle ran in this step
FrameConsumed == (DetectVoice \/ VadStart) /\ vad'.isListening

\* C31: the volume history never holds more than historySize samples; it
\* changes only by a detection cycle, which appends the effective volume of
\* its frame and, when the history was full, drops the oldest sample and no
\* other; and the cycle decides on the mean of the samples held after the
\* insert: it starts speech only if that mean is above the threshold, stays
\* silent (the cooldown being over) only if it is not, and arms the timer
\* only if it is not.
C31_BoundedHistory ==
  /\ [](Len(vad.volumeHistory) <= historySize)
  /\ [][vad'.volumeHistory # vad.volumeHistory =>
          /\ FrameConsumed
          /\ vad'.volumeHistory =
               IF Len(vad.volumeHistory) < historySize
               THEN Append(vad.volumeHistory, EffTable[env'.lastLevel])
               ELSE Append(Tail(vad.volumeHistory), EffTable[env'.lastLevel])]_vars
  /\ [][(FrameConsumed /\ vad.isListening) =>
          /\ Len(vad'.volumeHistory) =
               IF Len(vad.volumeHistory) < historySize
               THEN Len(vad.volumeHistory) + 1 ELSE historySize
          /\ vad'.volumeHistory[Len(vad'.volumeHistory)] = EffTable[env'.lastLevel]
          /\ (~vad.isSpeaking /\ vad'.isSpeaking) => SmoothedAbove(vad')
          /\ (~vad.isSpeaking /\ ~vad'.isSpeaking /\ CooldownElapsed(vad, now))
               => ~SmoothedAbove(vad')
          /\ (vad.silenceTimeout = NULL /\ vad'.silenceTimeout # NULL)
               => ~SmoothedAbove(vad')]_vars

\* C31 witness: the history is full of samples of level 100 although frames
\* of level 10 were heard in between: those were evicted.
C31_Witness ==
  /\ Len(vad.volumeHistory) = historySize
  /\ \A i \in DOMAIN vad.volumeHistory : vad.volumeHistory[i] = EffTable[100]
  /\ env.levelChanges = 2 /\ env.lastLevel = 100

\* the bins of a frame by region, counted from their frequencies
BandBinCount == Cardinality({i \in 0..(frequencyBinCount - 1) : InBand(i)})
FundamentalsBinCount == Cardinality({i \in 0..(frequencyBinCount - 1) : InFundamentals(i)})
\* twice the total of the weights
WeightTotal2 == 3 * FundamentalsBinCount + 2 * (BandBinCount - FundamentalsBinCount)

\* the scaled volume of a frame per unit of its sum of bins
BinScale == VolScale \div frequencyBinCount

\* the sum of the bins and twice the weighted sum over the band, for a frame
\* of the shape held in env
ShapeSum ==
  env.shape.fund * FundamentalsBinCount
    + env.shape.rest * (BandBinCount - FundamentalsBinCount)
    + env.shape.out * (frequencyBinCount - BandBinCount)
ShapeVoiceSum2 ==
  3 * env.shape.fund * FundamentalsBinCount
    + 2 * env.shape.rest * (BandBinCount - FundamentalsBinCount)

\* C32: effectiveVolume = max(overallMean, 0.8 * voiceBandMean)
\* with voiceBandMean a mean over the bins of the band: the weighted sum
\* divided by the total of the weights, or divided by the number of bins of
\* the band.  (Both sides are multiplied by the denominators.)
C32_EffectiveVolumeIsBandMean ==
  env.frames > 0 =>
    \/ env.effectiveVolume * 5 * WeightTotal2 =
         Max(ShapeSum * BinScale * 5 * WeightTotal2, ShapeVoiceSum2 * 4 * VolScale)
    \/ env.effectiveVolume * 10 * BandBinCount =
         Max(ShapeSum * BinScale * 10 * BandBinCount, ShapeVoiceSum2 * 4 * VolScale)

\* the calls of the handler that carried data
NonEmptyArrivals == SelectSeq(env.arrivals, LAMBDA d : d.size > 0)

RECURSIVE SumSizes(_)
SumSizes(S) ==
  IF S = {} THEN 0
  ELSE LET d == CHOOSE x \in S : TRUE IN d.size + SumSizes(S \ {d})

C35_OneFrameLoop == vad.isListening => vad.rafPending = 1

\* C36: stop() resets the running flag, the speaking flag, the pending timer
\* and the microphone and nothing else: the volume history, speechStartTime
\* and lastVoiceEndTime are as before.  So the first frame after the next
\* start() is averaged with the samples from before the stop, and the
\* VoiceEnded of stop() does not restart the cooldown, which is counted from
\* lastVoiceEndTime alone.
C36_StopKeepsHistoryAndTimes ==
  /\ [][(vad.isListening /\ ~vad'.isListening) =>
          /\ vad'.volumeHistory = vad.volumeHistory
          /\ vad'.speechStartTime = vad.speechStartTime
          /\ vad'.lastVoiceEndTime = vad.lastVoiceEndTime
          /\ vad'.config = vad.config
          /\ vad'.analyser = vad.analyser
          /\ ~vad'.isSpeaking
          /\ vad'.silenceTimeout = NULL /\ vad'.timers = {}
          /\ ~vad'.microphone]_vars
  /\ [][(~vad.isListening /\ vad'.isListening) =>
          /\ vad'.volumeHistory =
               IF Len(vad.volumeHistory) < historySize
               THEN Append(vad.volumeHistory, EffTable[env'.lastLevel])
               ELSE Append(Tail(vad.volumeHistory), EffTable[env'.lastLevel])
          /\ vad'.isSpeaking <=>
               (SmoothedAbove(vad') /\ now - vad.lastVoiceEndTime >= COOLDOWN_MS)]_vars

\* C36 witness: the detector was stopped while speaking and started again; the
\* history holds samples from before the stop, and the second VoiceStarted
\* came less than 1000 ms after the VoiceEnded of stop().
C36_Witness ==
  /\ vad.isListening /\ vad.isSpeaking
  /\ vad.voiceStartCount = 2 /\ vad.voiceEndCount = 1
  /\ vad.lastVoiceEndTime = 0
  /\ vad.speechStartTime >= vad.lastEndEmitTime
  /\ vad.speechStartTime - vad.lastEndEmitTime < COOLDOWN_MS
  /\ Len(vad.volumeHistory) >= 2

\* C37: stop() is idempotent: a second stop() right after a stop() emits
\* nothing and changes nothing, and so does a stop() of a detector that is
\* not listening, whether it was stopped before or never started.
C37_StopIdempotent ==
  /\ Stop(Stop(vad, now), now) = Stop(vad, now)
  /\ ~vad.isListening =>
       /\ Stop(vad, now) = vad
       /\ Stop(vad, now).voiceEndCount = vad.voiceEndCount
       /\ Stop(vad, now).voiceStartCount = vad.voiceStartCount

\* C37 witness: the detector was stopped while it was speaking and emitted
\* its VoiceEnded; another stop() leaves it as it is, with that one VoiceEnded.
C37_Witness ==
  /\ ~vad.isListening
  /\ vad.voiceStartCount = 1 /\ vad.voiceEndCount = 1
  /\ vad.lastVoiceEndTime = 0 /\ vad.lastEndEmitTime = now
  /\ vad.speechStartTime # NULL
  /\ Stop(vad, now).voiceEndCount = 1
  /\ Stop(vad, now) = vad

\* ---------------------------------------------------- claims, controller

\* the accumulated bytes of session r
TotalSize(r) == SumSeq(mrs[r].chunks)

\* session r was sent to /api/voice
Submitted(r) == \E i \in DOMAIN sink : sink[i].session = r

\* session r is Recording; it is Stopping from the stop() that was accepted for
\* it until its processing begins
SessionRecording(r) == mrs[r].state = "recording"
SessionStopping(r) == mrs[r].state = "inactive" /\ mrs[r].outcome = "none"

\* C1 (as claimed): once stop() was accepted for the latest session, and until
\* the next start(), its accumulator holds the chunks it held right after
\* stop(): no chunk delivered afterwards is appended.
C1_NoLateChunks ==
  \A r \in DOMAIN mrs :
    (r = Len(mrs) /\ rec.pendingStarts = 0 /\ mrs[r].state = "inactive")
      => Len(mrs[r].chunks) = mrs[r].chunksAtStop

\* C2: a start request that arrives while isRecording or isProcessing is set,
\* from the detector's callback or from the record button, changes neither the
\* current recorder, nor any chunk buffer, nor the controller state, nor what
\* was sent.
C2_StartWhileBusyIsNoOp ==
  [][((rec.isRecording \/ rec.isProcessing)
        /\ (VoiceStartCallback \/ (rec.isProcessing /\ HandleRecordClick)))
       => (mrs' = mrs /\ sink' = sink /\ [rec' EXCEPT !.rejected = rec.rejected] = rec)]_vars

\* C2 witness: a session is recording, and both a click and a detector callback
\* were refused.
C2_Witness ==
  /\ rec.rejected = {"manual", "auto"}
  /\ rec.isRecording
  /\ rec.mediaRecorder # 0
  /\ mrs[rec.mediaRecorder].state = "recording"

\* C3 (as claimed): at most one session is Recording or Stopping.
C3_OneLiveSession ==
  Cardinality({r \in DOMAIN mrs : SessionRecording(r) \/ SessionStopping(r)}) <= 1

\* C4 (as claimed): a session started after the stop() of the previous one is
\* a new recorder with its own empty buffer, and as long as it records and no
\* later session was started it is the controller's Recording session, so that
\* a stop request reaches it.
C4_RapidCycling ==
  \A r \in DOMAIN mrs :
    (r > 1 /\ r = Len(mrs) /\ SessionRecording(r) /\ mrs[r - 1].state = "inactive")
      => (rec.isRecording /\ rec.mediaRecorder = r /\ Len(mrs[r].chunks) <= mrs[r].events)

\* C5 (as claimed): a chunk is appended only to the accumulator of the session
\* that delivered it, and only if that session is the active one.
C5_OnlyActiveSessionAdmits ==
  [][\A r \in DOMAIN mrs :
       Len(mrs'[r].chunks) > Len(mrs[r].chunks) => rec.mediaRecorder = r]_vars

\* C6: a processed session of fewer than 1024 bytes was not sent and failed
\* validation, one of 1024 bytes or more was sent with exactly its bytes, and a
\* failed validation leaves isRecording and isProcessing cleared.
C6_Gate ==
  /\ \A r \in DOMAIN mrs :
       mrs[r].outcome # "none" =>
         /\ TotalSize(r) < 1024 => (~Submitted(r) /\ mrs[r].outcome \in {"empty", "tooSmall"})
         /\ TotalSize(r) >= 1024 =>
              (Submitted(r) /\ mrs[r].outcome \in {"processing", "ok", "failed", "threw"})
  /\ \A i \in DOMAIN sink :
       sink[i].bytes >= 1024 /\ sink[i].bytes = TotalSize(sink[i].session)

ManualStopRequest ==
  /\ HandleRecordClick
  /\ rec.isRecording /\ ~rec.isProcessing
  /\ rec.mediaRecorder # 0
  /\ rec.recordingStartTime # NULL

\* C13: a click less than 500 ms after the start leaves the recorder, the
\* buffers, the controller state and the sink as they were and is reported as
\* too short; a click at 500 ms or more stops the recorder and ends Recording.
C13_ManualTooShort ==
  /\ [][(ManualStopRequest /\ now - rec.recordingStartTime < 500) =>
          /\ mrs' = mrs /\ sink' = sink
          /\ [rec' EXCEPT !.rejected = rec.rejected] = rec
          /\ "tooShort" \in rec'.rejected]_vars
  /\ [][(ManualStopRequest /\ now - rec.recordingStartTime >= 500
           /\ mrs[rec.mediaRecorder].state = "recording") =>
          /\ ~rec'.isRecording
          /\ mrs'[rec.mediaRecorder].state = "inactive"]_vars

\* C13 witness: the only session was refused a stop as too short and was
\* stopped later.
C13_Witness ==
  /\ "tooShort" \in rec.rejected
  /\ Len(mrs) = 1
  /\ mrs[1].state = "inactive"
  /\ ~rec.isRecording

\* C14 (as claimed): when the detector's VoiceEnded reaches the controller
\* while a session is Recording, the stop is accepted whatever the time since
\* the start: the session's recorder is stopped and Recording ends.
C14_AutoStopAccepted ==
  [][(VoiceEndCallback
        /\ rec.isRecording /\ ~rec.isProcessing
        /\ rec.mediaRecorder # 0
        /\ mrs[rec.mediaRecorder].state = "recording") =>
       (~rec'.isRecording /\ mrs'[rec.mediaRecorder].state = "inactive")]_vars

\* C15: when the request of a submitted session settles, with success, with a
\* reported failure or with an exception, isProcessing and isRecording are
\* cleared, the session's recorder stays stopped, nothing is sent again and no
\* recorder is created; a settled session stays settled.
C15_IdleAfterSink ==
  /\ [][\A r \in DOMAIN mrs :
          (mrs[r].outcome = "processing" /\ mrs'[r].outcome # "processing") =>
            /\ mrs'[r].outcome \in {"ok", "failed", "threw"}
            /\ ~rec'.isProcessing /\ ~rec'.isRecording
            /\ mrs'[r].state = "inactive"
            /\ sink' = sink
            /\ Len(mrs') = Len(mrs)]_vars
  /\ [][\A r \in DOMAIN mrs :
          mrs[r].outcome \in {"ok", "failed", "threw"} =>
            (mrs'[r].outcome = mrs[r].outcome /\ mrs'[r].state = "inactive")]_vars

\* C15 witness: one submitted session ended with a reported failure and one
\* with an exception, and the controller is Idle.
C15_Witness ==
  /\ \E r, q \in DOMAIN mrs :
       /\ mrs[r].outcome = "failed" /\ Submitted(r)
       /\ mrs[q].outcome = "threw" /\ Submitted(q)
  /\ ~rec.isProcessing /\ ~rec.isRecording

\* the number of requests sent for session r
TimesSubmitted(r) == Cardinality({i \in DOMAIN sink : sink[i].session = r})

IsPrefix(a, b) == Len(a) <= Len(b) /\ \A i \in DOMAIN a : a[i] = b[i]

\* C25: no step (a stop, a refused start, validation, the request and its
\* end) removes a chunk from the buffer of any session; a step that delivers a
\* chunk appends it to one buffer only; and a step that starts a session adds
\* one recorder whose buffer is a new, empty one, the buffers of the earlier
\* sessions staying as they are.
C25_BufferEmptyOnlyAtStart ==
  /\ [][\A r \in DOMAIN mrs :
          r \in DOMAIN mrs' /\ IsPrefix(mrs[r].chunks, mrs'[r].chunks)]_vars
  /\ [][Cardinality({r \in DOMAIN mrs : mrs'[r].chunks # mrs[r].chunks}) <= 1]_vars
  /\ [][Len(mrs') # Len(mrs) =>
          /\ Len(mrs') = Len(mrs) + 1
          /\ mrs'[Len(mrs')].chunks = <<>>
          /\ mrs'[Len(mrs')].state = "recording"
          /\ rec'.mediaRecorder = Len(mrs')
          /\ \A r \in DOMAIN mrs : mrs'[r].chunks = mrs[r].chunks]_vars

\* C25 witness: a session of two chunks was validated, sent and answered, a
\* start was refused meanwhile, and the next session records with an empty
\* buffer while the first still holds its two chunks.
C25_Witness ==
  \E r, q \in DOMAIN mrs :
    /\ r < q
    /\ Len(mrs[r].chunks) = 2 /\ mrs[r].outcome = "ok"
    /\ mrs[q].state = "recording" /\ mrs[q].chunks = <<>>
    /\ rec.rejected # {}

\* session r is validated, or the request sent for it ends, in this step
SessionCompletes(r) ==
  /\ mrs[r].outcome \in {"none", "processing"}
  /\ mrs'[r].outcome # mrs[r].outcome
  /\ mrs'[r].outcome # "processing"

\* the validation of session r passes and its request is sent in this step
SessionSubmitted(r) == mrs[r].outcome = "none" /\ mrs'[r].outcome = "processing"

\* C26 (as claimed): when the validation or the request of a session completes
\* or its request is sent while a later session is the controller's session and
\* records, that later session stays Recording and is not marked Processing;
\* and what is sent for a session is the total of that session's own chunks.
C26_NoLeakIntoLaterSession ==
  /\ [][\A r \in DOMAIN mrs :
          ((SessionCompletes(r) \/ SessionSubmitted(r))
             /\ rec.mediaRecorder > r
             /\ mrs[rec.mediaRecorder].state = "recording"
             /\ rec.isRecording /\ ~rec.isProcessing)
            => (rec'.isRecording /\ ~rec'.isProcessing)]_vars
  /\ [](\A i \in DOMAIN sink : sink[i].bytes = TotalSize(sink[i].session))

\* the state of session r, read from its recorder m[r]: Recording while the
\* recorder records, Stopping from stop() until processRecording runs,
\* Processing while its request is out, Idle when it is done with
Phase(m, r) ==
  IF m[r].state = "recording" THEN "Recording"
  ELSE IF m[r].outcome = "none" THEN "Stopping"
  ELSE IF m[r].outcome = "processing" THEN "Processing"
  ELSE "Idle"

\* C27: a session starts Recording and changes state only from Recording to
\* Stopping, from Stopping to Processing (or, when processRecording rejects it
\* at validation, through it to Idle in the same step) and from Processing to
\* Idle; processRecording runs for a session only when its recorder is
\* inactive, has delivered its last data and has fired its stop event, and
\* the 100 ms timer set then has run out.
C27_SessionOrder ==
  /\ [][\A r \in DOMAIN mrs :
          Phase(mrs', r) # Phase(mrs, r) =>
            <<Phase(mrs, r), Phase(mrs', r)>> \in
              {<<"Recording", "Stopping">>, <<"Stopping", "Processing">>,
               <<"Stopping", "Idle">>, <<"Processing", "Idle">>}]_vars
  /\ [][\A r \in DOMAIN mrs' : r \notin DOMAIN mrs => Phase(mrs', r) = "Recording"]_vars
  /\ [][\A r \in DOMAIN mrs :
          (mrs[r].outcome = "none" /\ mrs'[r].outcome # "none") =>
            /\ mrs[r].state = "inactive"
            /\ ~mrs[r].finalPending /\ ~mrs[r].stopPending
            /\ mrs[r].timer # NULL /\ now >= mrs[r].timer
            /\ mrs'[r].chunks = mrs[r].chunks]_vars
  /\ [][\A r \in DOMAIN mrs :
          (mrs[r].timer = NULL /\ mrs'[r].timer # NULL) =>
            (mrs[r].state = "inactive" /\ ~mrs[r].finalPending
               /\ mrs'[r].timer = now + PROCESS_DELAY_MS)]_vars

\* C27 witness: a session went through all its states, its recorder having
\* delivered a last chunk between stop() and the stop event.
C27_Witness ==
  \E r \in DOMAIN mrs :
    /\ Phase(mrs, r) = "Idle" /\ mrs[r].outcome = "ok"
    /\ mrs[r].chunksAtStop # NULL
    /\ Len(mrs[r].chunks) > mrs[r].chunksAtStop

\* session r is done with: rejected at validation, or its request has ended
SessionDone(r) ==
  r \in DOMAIN mrs /\ mrs[r].outcome \in {"empty", "tooSmall", "ok", "failed", "threw"}

\* C28: every session whose recorder was stopped is eventually done with
\* (rejected as empty or too small, or its request ended in success, failure
\* or an exception), and the step that ends it leaves isRecording and
\* isProcessing cleared, so that the next start request passes the guard.
C28_StoppedSessionReturnsToIdle ==
  /\ \A r \in 1..MaxRecorders :
       (r \in DOMAIN mrs /\ mrs[r].state = "inactive") ~> SessionDone(r)
  /\ [][\A r \in DOMAIN mrs : SessionCompletes(r) => ~Busy(rec')]_vars

\* C28 witness: a session was stopped, sent and answered, and the session
\* started next is recording.
C28_Witness ==
  \E r \in DOMAIN mrs :
    /\ SessionDone(r) /\ mrs[r].outcome = "failed"
    /\ r + 1 \in DOMAIN mrs
    /\ mrs[r + 1].state = "recording" /\ rec.isRecording /\ rec.mediaRecorder = r + 1
    /\ now > T0 + MIN_RECORDING_DURATION + PROCESS_DELAY_MS

\* C29 (as claimed): a start request that comes back from its wait for the
\* audio source while a session is already Recording starts no recorder, and
\* two requests that waited together leave at most one recorder recording.
C29_ConcurrentStartsOneRecorder ==
  [][(StartRecordingResumes
        /\ rec.isRecording /\ rec.mediaRecorder # 0
        /\ mrs[rec.mediaRecorder].state = "recording")
       => /\ Len(mrs') = Len(mrs)
          /\ Cardinality({r \in DOMAIN mrs' : mrs'[r].state = "recording"}) <= 1]_vars

\* C34: the events of the detector act on the controller only through the
\* guards: a session requested by VoiceStarted starts only when the controller
\* is neither recording nor processing, VoiceEnded stops one only when it is
\* recording and not processing, and otherwise the controller and the chunks
\* are left as they were.
C34_DetectorEventsGuarded ==
  /\ [][(VoiceStartCallback /\ Busy(rec)) =>
          /\ rec' = Rejected(rec, "auto")
          /\ mrs' = mrs]_vars
  /\ [][(Len(mrs') > Len(mrs)
           /\ (VoiceStartCallback \/ rec'.pendingAuto < rec.pendingAuto)) =>
          ~Busy(rec)]_vars
  /\ [][VoiceEndCallback => rec.isRecording /\ ~rec.isProcessing]_vars
  /\ [](~(rec.isRecording /\ ~rec.isProcessing) =>
          VoiceEnd(rec, mrs, now) = {[rec |-> rec, mrs |-> mrs]})

====
